---- MODULE Spec2Model ----
\* Model of bittensor's core_server neuron: the Process wrapper that returns
\* child exceptions to the parent, the supervision loop of neuron.run, and
\* the identity fan-out of neuron.create_shared_subconfigs.
EXTENDS Integers, Sequences, FiniteSets, TLC

\* ---------------------------------------------------------------- bounds
MaxWorkers == 3
MaxSmoothSteps == 3
MaxGlobalStep == 21
MaxFails == 2
MaxPeerPubs == 1
MaxQueries == 2
MaxKeys == 2
MaxPorts == 2
MaxMutations == 2

\* ------------------------------------------------------- Python values
\* None is the empty tuple; a non-empty tuple is truthy, None is falsy.
None == <<>>
Truthy(v) == Len(v) > 0
\* the tracebacks traceback.format_exc() can produce in a child
Traces == {"tb_a", "tb_b"}

VARIABLES
  numWorkers,   \* len(self.shared_subconfigs) of this run, >= 2
  wpc,          \* per worker: "unstarted" | "running" | "sent" | "exited"
  outcome,      \* per worker: how its run body ended
  pipe,         \* per worker: messages in the Pipe, child -> parent
  sent,         \* per worker: every message the child ever sent (history)
  cache,        \* per worker: Process._exception in the parent
  recvs,        \* per worker: number of _parent_conn.recv() calls (history)
  blocked,      \* per worker: the parent sits in recv() on an empty pipe
  exitcode,     \* per worker: None or <<code>>
  signalled,    \* per worker: terminate() was called on it
  supPc,        \* "spawn" | "while" | "for" | "raised" | "returned" | "idle"
  nextN,        \* the counter n of the spawn loop
  processes,    \* keys of the dict processes
  todo,         \* rest of list(processes) in the current for pass
  raisedMsg,    \* message of the ChildProcessError raised, None if none
  raisedCount,  \* number of errors raised to the caller of run()
  observed,     \* workers the poll loop met dead with a delivered pair (history)
  queries,      \* per worker: number of extra reads of Process.exception
  lastQuery,    \* per worker: result of the last such read
  qAfter,       \* per worker: number of reads made after a pair was sent
  shared_keys,  \* config.wallet.shared_keys of the input: None or <<string>>
  shared_ports, \* config.axon.shared_ports of the input: None or <<string>>
  cfgHeap,      \* config objects: id -> [wallet |-> id, axon |-> id]
  walletHeap,   \* config.wallet objects: id -> [name, hotkey]
  axonHeap,     \* config.axon objects: id -> [port]
  shared_subconfigs, \* self.shared_subconfigs: sequence of config ids
  initStatus,   \* neuron.__init__: "new" | "ok" | "error"
  launched,     \* config ids handed to serve by neuron.run, None before
  mutated,      \* indices of the derived configs written to since fan-out
  muts,         \* number of writes to derived configs since fan-out
  atFanout,     \* the three heaps as they were right after the fan-out
  inKeys,       \* the key entries shared_keys was written from (history)
  inPorts       \* the port entries shared_ports was written from (history)

fanVars == <<shared_keys, shared_ports, cfgHeap, walletHeap, axonHeap,
             shared_subconfigs, initStatus, launched, mutated, muts,
             atFanout, inKeys, inPorts>>

VARIABLES
  rowNum,       \* WeightVector as exact fractions: numerators
  rowDen,       \* WeightVector: the common denominator, >= 1
  smoothSteps   \* smoothing updates applied so far

smoothVars == <<rowNum, rowDen, smoothSteps>>

VARIABLES
  tpc,            \* where main/train stands: "main" | "train_init" | "loop" |
                  \* "compute" | "emit" | "sync" | "reset" | "prio" | "end" |
                  \* "ret" | "fault" | "idle"
  sync_interval,  \* config.neuron.sync_interval
  epoch,          \* main: epoch
  global_step,    \* global_step of main and train
  local_step,     \* train: local_step
  output,         \* train: output, as None or <<local_target_loss>>
  best_train_loss, \* main: None for math.inf, else <<loss>>
  saved,          \* model.torch: None or <<[epoch, loss]>>
  row,            \* train: row_weights as a term [base, steps]: the chain
                  \* row it was pulled as and the batches smoothed into it
  chainRow,       \* shared state: id of the emit that row 0 holds, 0 at first
  chainCol,       \* shared state: version of column 0, moved by the peers
  W,              \* session.metagraph.W as last pulled: [row, col, at]
  emitCount,      \* emits included so far
  lastEmit,       \* None or <<[row, since, step]>> of the last emit (history)
  sincePublish,   \* counted steps since the row was last reset in a publish
  pullCount,      \* publish/pull cycles done: emit and sync both returned
  lastPullStep,   \* 1-based step number of the last such cycle
  prio,           \* None or <<[col, at, emits]>> of the last set_priority
  cycleLog,       \* calls of the publish cycle of the current attempt
  fails,          \* step attempts that raised so far
  lastFail,       \* None or <<point>>: where the current attempt raised
  faultCause,     \* None or <<point>>: what made the run body raise
  attemptStart,   \* <<global_step, local_step>> when the attempt began
  minSeen,        \* least loss seen at the end of an invocation (history)
  peerPubs        \* publishes by other peers so far

syncVars == <<tpc, sync_interval, epoch, global_step, local_step, output,
              best_train_loss, saved, row, chainRow, chainCol, W, emitCount,
              lastEmit, sincePublish, pullCount, lastPullStep, prio,
              cycleLog, fails, lastFail, faultCause, attemptStart, minSeen,
              peerPubs>>

trainVars == <<smoothVars, syncVars>>

vars == <<numWorkers, wpc, outcome, pipe, sent, cache, recvs, blocked,
          exitcode, signalled, supPc, nextN, processes, todo, raisedMsg,
          raisedCount, observed, queries, lastQuery, qAfter, fanVars, trainVars>>

AllIds == 0 .. (MaxWorkers - 1)
Workers == 0 .. (numWorkers - 1)

RECURSIVE SortedSeq(_)
\* list(processes): dict keys in insertion order, which is ascending n
SortedSeq(S) ==
  IF S = {} THEN <<>>
  ELSE LET m == CHOOSE x \in S : \A y \in S : x <= y
       IN <<m>> \o SortedSeq(S \ {m})

Alive(k) == wpc[k] \in {"running", "sent"}

\* ------------------------------------------------------------- Process
\* Process.__init__: a fresh pipe, _exception = None
ProcessInit ==
  /\ wpc = [k \in AllIds |-> "unstarted"]
  /\ outcome = [k \in AllIds |-> "none"]
  /\ pipe = [k \in AllIds |-> <<>>]
  /\ sent = [k \in AllIds |-> <<>>]
  /\ cache = [k \in AllIds |-> None]
  /\ recvs = [k \in AllIds |-> 0]
  /\ blocked = [k \in AllIds |-> FALSE]
  /\ exitcode = [k \in AllIds |-> None]
  /\ signalled = [k \in AllIds |-> FALSE]
  /\ queries = [k \in AllIds |-> 0]
  /\ lastQuery = [k \in AllIds |-> None]
  /\ qAfter = [k \in AllIds |-> 0]

\* a variant that hands the received value out once and does not keep it
exception_noCache(st) ==
  IF Len(st.pipe) > 0
  THEN [pipe |-> Tail(st.pipe), cache |-> st.cache,
        recvs |-> st.recvs + 1, blocked |-> st.blocked,
        ret |-> Head(st.pipe)]
  ELSE [st EXCEPT !.ret = None]

\* the property Process.exception, as a function of the parent's view
\* st = [pipe, cache, recvs, blocked, ret]: if poll() then _exception =
\* recv(); return _exception.  ret is the value returned.
exception(st) ==
  IF Len(st.pipe) > 0
  THEN [pipe |-> Tail(st.pipe), cache |-> Head(st.pipe),
        recvs |-> st.recvs + 1, blocked |-> st.blocked,
        ret |-> Head(st.pipe)]
  ELSE [st EXCEPT !.ret = st.cache]

View(k) == [pipe |-> pipe[k], cache |-> cache[k], recvs |-> recvs[k],
            blocked |-> blocked[k], ret |-> None]

\* the (error, trace) pair worker k delivered, None if it delivered none
PairOf(k) ==
  IF \E i \in 1..Len(sent[k]) : Truthy(sent[k][i])
  THEN sent[k][CHOOSE i \in 1..Len(sent[k]) : Truthy(sent[k][i])]
  ELSE None

\* the trace worker k captured, as an error message; None if none
TraceOf(k) == IF Truthy(PairOf(k)) THEN <<PairOf(k)[2]>> ELSE None

supUnchanged == UNCHANGED <<supPc, nextN, processes, todo, raisedMsg,
                            raisedCount, observed, numWorkers, fanVars, trainVars>>
queryUnchanged == UNCHANGED <<queries, lastQuery, qAfter>>
parentUnchanged == UNCHANGED <<cache, recvs, blocked>>

\* Process.run, try branch: the target returns, then send(None)
BodyReturns(k) ==
  /\ wpc[k] = "running"
  /\ wpc' = [wpc EXCEPT ![k] = "sent"]
  /\ outcome' = [outcome EXCEPT ![k] = "returned"]
  /\ pipe' = [pipe EXCEPT ![k] = Append(@, None)]
  /\ sent' = [sent EXCEPT ![k] = Append(@, None)]
  /\ UNCHANGED <<exitcode, signalled>>
  /\ parentUnchanged /\ supUnchanged /\ queryUnchanged

\* a variant with the "no fault" send in a finally clause
BodyRaises_finally(k) ==
  /\ wpc[k] = "running"
  /\ \E tb \in Traces :
       /\ pipe' = [pipe EXCEPT ![k] = Append(Append(@, <<"e", tb>>), None)]
       /\ sent' = [sent EXCEPT ![k] = Append(Append(@, <<"e", tb>>), None)]
  /\ wpc' = [wpc EXCEPT ![k] = "sent"]
  /\ outcome' = [outcome EXCEPT ![k] = "raised"]
  /\ UNCHANGED <<exitcode, signalled>>
  /\ parentUnchanged /\ supUnchanged /\ queryUnchanged

\* Process.run, except Exception branch: format the trace, send((e, tb)),
\* and swallow the exception (the re-raise is commented out)
BodyRaises(k) ==
  /\ wpc[k] = "running"
  /\ \E tb \in Traces :
       /\ pipe' = [pipe EXCEPT ![k] = Append(@, <<"e", tb>>)]
       /\ sent' = [sent EXCEPT ![k] = Append(@, <<"e", tb>>)]
  /\ wpc' = [wpc EXCEPT ![k] = "sent"]
  /\ outcome' = [outcome EXCEPT ![k] = "raised"]
  /\ UNCHANGED <<exitcode, signalled>>
  /\ parentUnchanged /\ supUnchanged /\ queryUnchanged

\* the target ends with a BaseException that is no Exception (SystemExit,
\* KeyboardInterrupt): neither branch of Process.run sends anything and the
\* interpreter exits with the SystemExit code or with 1
BodyRaisesBase(k) ==
  /\ wpc[k] = "running"
  /\ \E code \in {0, 1} : exitcode' = [exitcode EXCEPT ![k] = <<code>>]
  /\ wpc' = [wpc EXCEPT ![k] = "exited"]
  /\ outcome' = [outcome EXCEPT ![k] = "base"]
  /\ UNCHANGED <<pipe, sent, signalled>>
  /\ parentUnchanged /\ supUnchanged /\ queryUnchanged

\* a variant with the re-raise of the except branch switched on
ProcessExit_reraise(k) ==
  /\ wpc[k] = "sent"
  /\ wpc' = [wpc EXCEPT ![k] = "exited"]
  /\ exitcode' = [exitcode EXCEPT ![k] =
                    IF outcome[k] = "raised" THEN <<1>> ELSE <<0>>]
  /\ UNCHANGED <<outcome, pipe, sent, signalled>>
  /\ parentUnchanged /\ supUnchanged /\ queryUnchanged

\* Process.run returned: the child process exits with status 0
ProcessExit(k) ==
  /\ wpc[k] = "sent"
  /\ wpc' = [wpc EXCEPT ![k] = "exited"]
  /\ exitcode' = [exitcode EXCEPT ![k] = <<0>>]
  /\ UNCHANGED <<outcome, pipe, sent, signalled>>
  /\ parentUnchanged /\ supUnchanged /\ queryUnchanged

\* the child is killed from outside (SIGKILL, e.g. the OOM killer)
Killed(k) ==
  /\ Alive(k)
  /\ wpc' = [wpc EXCEPT ![k] = "exited"]
  /\ exitcode' = [exitcode EXCEPT ![k] = <<-9>>]
  /\ outcome' = [outcome EXCEPT ![k] = IF @ = "none" THEN "killed" ELSE @]
  /\ UNCHANGED <<pipe, sent, signalled>>
  /\ parentUnchanged /\ supUnchanged /\ queryUnchanged

\* the SIGTERM of p_.terminate() reaches a child that is still alive
DiesOfTerminate(k) ==
  /\ Alive(k)
  /\ signalled[k]
  /\ wpc' = [wpc EXCEPT ![k] = "exited"]
  /\ exitcode' = [exitcode EXCEPT ![k] = <<-15>>]
  /\ outcome' = [outcome EXCEPT ![k] = IF @ = "none" THEN "terminated" ELSE @]
  /\ UNCHANGED <<pipe, sent, signalled>>
  /\ parentUnchanged /\ supUnchanged /\ queryUnchanged

\* ---------------------------------------------------------- neuron.run
\* a variant that tests the exit code before the fault slot
PollBranch_exitFirst(alive, ec, exc) ==
  IF alive THEN "skip"
  ELSE IF ec = None THEN "notstarted"
  ELSE IF ec = <<0>> THEN "reap"
  ELSE IF Truthy(exc) THEN "fault"
  ELSE "skip"

\* a variant that raises with the error value instead of the trace
ErrorMessage_error(br, exc) ==
  IF br = "notstarted" THEN <<"Not started and not exited!">>
  ELSE <<exc[1]>>

\* the argument of raise ChildProcessError(...)
ErrorMessage(br, exc) ==
  IF br = "notstarted" THEN <<"Not started and not exited!">>
  ELSE <<exc[2]>>

\* the branch the poll loop takes for one dead-or-alive process:
\* alive = p.is_alive(), ec = p.exitcode, exc = p.exception
PollBranch(alive, ec, exc) ==
  IF alive THEN "skip"
  ELSE IF ec = None THEN "notstarted"
  ELSE IF Truthy(exc) THEN "fault"
  ELSE IF ec = <<0>> THEN "reap"
  ELSE "skip"

\* the spawn loop: p = Process(target=serve, ...); p.start();
\* processes[n] = (p, shared_subconfig); n += 1
SupStart ==
  /\ supPc = "spawn"
  /\ wpc' = [wpc EXCEPT ![nextN] = "running"]
  /\ processes' = processes \cup {nextN}
  /\ nextN' = nextN + 1
  /\ supPc' = IF nextN + 1 = numWorkers THEN "while" ELSE "spawn"
  /\ UNCHANGED <<outcome, pipe, sent, exitcode, signalled, todo, raisedMsg,
                 raisedCount, observed, numWorkers, fanVars, trainVars>>
  /\ parentUnchanged /\ queryUnchanged

\* while len(processes) > 0: for n in list(processes):
SupWhile ==
  /\ supPc = "while"
  /\ IF processes = {}
     THEN supPc' = "returned" /\ todo' = <<>>
     ELSE supPc' = "for" /\ todo' = SortedSeq(processes)
  /\ UNCHANGED <<wpc, outcome, pipe, sent, exitcode, signalled, nextN,
                 processes, raisedMsg, raisedCount, observed, numWorkers,
                 fanVars, trainVars>>
  /\ parentUnchanged /\ queryUnchanged

\* one iteration of the for loop: sleep(1), then the liveness checks
SupPoll ==
  /\ supPc = "for"
  /\ todo # <<>>
  /\ LET n == Head(todo)
         s1 == exception(View(n))     \* read by "elif p.exception"
         s2 == exception(s1)          \* read by "error, trace = p.exception"
         br == PollBranch(Alive(n), exitcode[n], s1.ret)
         rest == Tail(todo)
     IN /\ observed' = IF ~Alive(n) /\ Truthy(PairOf(n))
                        THEN Append(observed, n) ELSE observed
        /\ CASE br = "skip" ->
                  \* p.exception is evaluated only for a dead, started process
                  /\ IF ~Alive(n) /\ exitcode[n] # None
                     THEN /\ pipe' = [pipe EXCEPT ![n] = s1.pipe]
                          /\ cache' = [cache EXCEPT ![n] = s1.cache]
                          /\ recvs' = [recvs EXCEPT ![n] = s1.recvs]
                     ELSE UNCHANGED <<pipe, cache, recvs>>
                  /\ todo' = rest
                  /\ supPc' = IF rest = <<>> THEN "while" ELSE "for"
                  /\ UNCHANGED <<processes, signalled, raisedMsg, raisedCount>>
             [] br = "notstarted" ->
                  /\ signalled' = [k \in AllIds |->
                                    signalled[k] \/ k \in processes]
                  /\ raisedMsg' = ErrorMessage(br, s1.ret)
                  /\ raisedCount' = raisedCount + 1
                  /\ supPc' = "raised"
                  /\ UNCHANGED <<pipe, cache, recvs, processes, todo>>
             [] br = "fault" ->
                  /\ pipe' = [pipe EXCEPT ![n] = s2.pipe]
                  /\ cache' = [cache EXCEPT ![n] = s2.cache]
                  /\ recvs' = [recvs EXCEPT ![n] = s2.recvs]
                  /\ signalled' = [k \in AllIds |->
                                    signalled[k] \/ k \in processes]
                  /\ raisedMsg' = ErrorMessage(br, s2.ret)
                  /\ raisedCount' = raisedCount + 1
                  /\ supPc' = "raised"
                  /\ UNCHANGED <<processes, todo>>
             [] br = "reap" ->
                  /\ pipe' = [pipe EXCEPT ![n] = s1.pipe]
                  /\ cache' = [cache EXCEPT ![n] = s1.cache]
                  /\ recvs' = [recvs EXCEPT ![n] = s1.recvs]
                  /\ processes' = processes \ {n}
                  /\ todo' = rest
                  /\ supPc' = IF rest = <<>> THEN "while" ELSE "for"
                  /\ UNCHANGED <<signalled, raisedMsg, raisedCount>>
  /\ UNCHANGED <<wpc, outcome, sent, exitcode, blocked, nextN, numWorkers,
                 fanVars, trainVars>>
  /\ queryUnchanged

\* ------------------------------------- a client of one Process object
ProcCount == 2

\* the parent calls p.start()
ClientStart(k) ==
  /\ supPc = "idle"
  /\ wpc[k] = "unstarted"
  /\ wpc' = [wpc EXCEPT ![k] = "running"]
  /\ UNCHANGED <<outcome, pipe, sent, exitcode, signalled>>
  /\ parentUnchanged /\ supUnchanged /\ queryUnchanged

\* the parent calls p.terminate()
ClientTerminate(k) ==
  /\ supPc = "idle"
  /\ Alive(k)
  /\ ~signalled[k]
  /\ signalled' = [signalled EXCEPT ![k] = TRUE]
  /\ UNCHANGED <<wpc, outcome, pipe, sent, exitcode>>
  /\ parentUnchanged /\ supUnchanged /\ queryUnchanged

\* the parent reads p.exception, at any time
Query(k) ==
  /\ supPc = "idle"
  /\ queries[k] < MaxQueries
  /\ ~blocked[k]
  /\ LET s == exception(View(k))
     IN /\ pipe' = [pipe EXCEPT ![k] = s.pipe]
        /\ cache' = [cache EXCEPT ![k] = s.cache]
        /\ recvs' = [recvs EXCEPT ![k] = s.recvs]
        /\ blocked' = [blocked EXCEPT ![k] = s.blocked]
        /\ lastQuery' = [lastQuery EXCEPT ![k] =
                           IF s.blocked THEN None ELSE s.ret]
  /\ queries' = [queries EXCEPT ![k] = @ + 1]
  /\ qAfter' = [qAfter EXCEPT ![k] =
                   IF Truthy(PairOf(k)) THEN @ + 1 ELSE 0]
  /\ UNCHANGED <<wpc, outcome, sent, exitcode, signalled>>
  /\ supUnchanged

\* ------------------------------------------------------ specifications
FanIdle ==
  /\ shared_keys = None
  /\ shared_ports = None
  /\ cfgHeap = <<>>
  /\ walletHeap = <<>>
  /\ axonHeap = <<>>
  /\ shared_subconfigs = <<>>
  /\ initStatus = "idle"
  /\ launched = None
  /\ mutated = {}
  /\ muts = 0
  /\ atFanout = <<>>
  /\ inKeys = <<>>
  /\ inPorts = <<>>

SmoothIdle ==
  /\ rowNum = <<>>
  /\ rowDen = 1
  /\ smoothSteps = 0

SyncIdle ==
  /\ tpc = "idle"
  /\ sync_interval = 1
  /\ epoch = -1
  /\ global_step = 0
  /\ local_step = 0
  /\ output = None
  /\ best_train_loss = None
  /\ saved = None
  /\ row = <<>>
  /\ chainRow = 0
  /\ chainCol = 0
  /\ W = <<>>
  /\ emitCount = 0
  /\ lastEmit = None
  /\ sincePublish = <<>>
  /\ pullCount = 0
  /\ lastPullStep = 0
  /\ prio = None
  /\ cycleLog = <<>>
  /\ fails = 0
  /\ lastFail = None
  /\ faultCause = None
  /\ attemptStart = <<0, 0>>
  /\ minSeen = None
  /\ peerPubs = 0

TrainIdle ==
  /\ SmoothIdle
  /\ SyncIdle

SupInit ==
  /\ supPc = "spawn"
  /\ nextN = 0
  /\ processes = {}
  /\ todo = <<>>
  /\ raisedMsg = None
  /\ raisedCount = 0
  /\ observed = <<>>

\* neuron.run in the multi-process branch, right before the spawn loop
Init ==
  /\ numWorkers \in 2 .. MaxWorkers
  /\ ProcessInit
  /\ SupInit
  /\ FanIdle
  /\ TrainIdle

WorkerStep(k) ==
  \/ BodyReturns(k)
  \/ BodyRaises(k)
  \/ BodyRaisesBase(k)
  \/ ProcessExit(k)
  \/ Killed(k)
  \/ DiesOfTerminate(k)

Next ==
  \/ SupStart
  \/ SupWhile
  \/ SupPoll
  \/ \E k \in Workers : WorkerStep(k)

Spec == Init /\ [][Next]_vars

\* the supervisor keeps running, a process whose run() returned exits, and
\* a terminated process dies; a run body may go on forever
Fairness ==
  /\ WF_vars(SupStart)
  /\ WF_vars(SupWhile)
  /\ WF_vars(SupPoll)
  /\ \A k \in AllIds : WF_vars(ProcessExit(k))
  /\ \A k \in AllIds : WF_vars(DiesOfTerminate(k))

FairSpec == Spec /\ Fairness

\* Process objects driven by an arbitrary parent
InitProcess ==
  /\ numWorkers = ProcCount
  /\ ProcessInit
  /\ supPc = "idle"
  /\ nextN = 0
  /\ processes = {}
  /\ todo = <<>>
  /\ raisedMsg = None
  /\ raisedCount = 0
  /\ observed = <<>>
  /\ FanIdle
  /\ TrainIdle

NextProcess ==
  \E k \in Workers :
    \/ ClientStart(k)
    \/ ClientTerminate(k)
    \/ Query(k)
    \/ WorkerStep(k)

SpecProcess == InitProcess /\ [][NextProcess]_vars

\* ------------------------------------------- create_shared_subconfigs
\* strings are tuples of characters
RECURSIVE Split(_, _)
\* str.split(sep) for a one-character separator
Split(str, sep) ==
  IF \E i \in 1..Len(str) : str[i] = sep
  THEN LET i == CHOOSE i \in 1..Len(str) :
                  str[i] = sep /\ \A j \in 1..(i - 1) : str[j] # sep
       IN <<SubSeq(str, 1, i - 1)>> \o Split(SubSeq(str, i + 1, Len(str)), sep)
  ELSE <<str>>

Digits == {"0", "1", "2", "3", "4", "5", "6", "7", "8", "9"}
DigitVal(c) ==
  CASE c = "0" -> 0 [] c = "1" -> 1 [] c = "2" -> 2 [] c = "3" -> 3
    [] c = "4" -> 4 [] c = "5" -> 5 [] c = "6" -> 6 [] c = "7" -> 7
    [] c = "8" -> 8 [] c = "9" -> 9

\* int(str) raises ValueError unless this holds
IsInt(str) == Len(str) > 0 /\ \A i \in 1..Len(str) : str[i] \in Digits

RECURSIVE IntOf(_)
\* int(str) of a decimal string
IntOf(str) ==
  IF str = <<>> THEN 0
  ELSE 10 * IntOf(SubSeq(str, 1, Len(str) - 1)) + DigitVal(str[Len(str)])

\* a copy that shares the wallet and axon objects of the original
DeepCopy_shallow(h, c) ==
  [heap |-> [h EXCEPT !.cfg = Append(@, h.cfg[c])],
   ref |-> Len(h.cfg) + 1]

\* copy.deepcopy(config): h = [cfg, wallet, axon] are the heaps, c the
\* config id; a new config object with new wallet and axon objects
DeepCopy(h, c) ==
  [heap |-> [cfg |-> Append(h.cfg, [wallet |-> Len(h.wallet) + 1,
                                    axon |-> Len(h.axon) + 1]),
             wallet |-> Append(h.wallet, h.wallet[h.cfg[c].wallet]),
             axon |-> Append(h.axon, h.axon[h.cfg[c].axon])],
   ref |-> Len(h.cfg) + 1]

\* a variant that unpacks the key as hotkey, coldkey
Substitute_swapped(h, c, coldkey, hotkey, port) ==
  [h EXCEPT !.wallet[h.cfg[c].wallet].name = hotkey,
            !.wallet[h.cfg[c].wallet].hotkey = coldkey,
            !.axon[h.cfg[c].axon].port = port]

\* subconfig.wallet.name = coldkey; subconfig.wallet.hotkey = hotkey;
\* subconfig.axon.port = port
Substitute(h, c, coldkey, hotkey, port) ==
  [h EXCEPT !.wallet[h.cfg[c].wallet].name = coldkey,
            !.wallet[h.cfg[c].wallet].hotkey = hotkey,
            !.axon[h.cfg[c].axon].port = port]

RECURSIVE FanLoop(_, _, _, _)
\* for key, port in zip(keylist, map(int, portstrings)): iteration i.
\* zip asks keylist first and stops as soon as either side is exhausted;
\* map is lazy, so int() runs on a port only when zip asks for it.
\* st = [heap, out, err]
FanLoop(i, keylist, portlist, st) ==
  IF i > Len(keylist) THEN st
  ELSE IF i > Len(portlist) THEN st
  ELSE IF ~IsInt(portlist[i]) THEN [st EXCEPT !.err = TRUE]
  ELSE LET parts == Split(keylist[i], ":")
       IN IF Len(parts) # 2 THEN [st EXCEPT !.err = TRUE]
          ELSE LET cp == DeepCopy(st.heap, 1)
                   h2 == Substitute(cp.heap, cp.ref, parts[1], parts[2],
                                    IntOf(portlist[i]))
               IN FanLoop(i + 1, keylist, portlist,
                          [heap |-> h2, out |-> Append(st.out, cp.ref),
                           err |-> FALSE])

\* create_shared_subconfigs(config) for the config object 1;
\* keys, ports are config.wallet.shared_keys and config.axon.shared_ports
create_shared_subconfigs(keys, ports, h) ==
  IF keys # None
  THEN IF ports = None
       THEN [heap |-> h, out |-> <<>>, err |-> TRUE]
       ELSE FanLoop(1, Split(keys[1], ","), Split(ports[1], ","),
                    [heap |-> h, out |-> <<>>, err |-> FALSE])
  ELSE [heap |-> h, out |-> <<1>>, err |-> FALSE]

Heap == [cfg |-> cfgHeap, wallet |-> walletHeap, axon |-> axonHeap]

\* neuron.__init__, lines 139-141: self.config = config;
\* self.shared_subconfigs = self.create_shared_subconfigs(config)
NeuronInit ==
  /\ initStatus = "new"
  /\ LET r == create_shared_subconfigs(shared_keys, shared_ports, Heap)
     IN /\ initStatus' = IF r.err THEN "error" ELSE "ok"
        /\ shared_subconfigs' = IF r.err THEN <<>> ELSE r.out
        /\ cfgHeap' = r.heap.cfg
        /\ walletHeap' = r.heap.wallet
        /\ axonHeap' = r.heap.axon
        /\ atFanout' = r.heap
  /\ UNCHANGED <<shared_keys, shared_ports, launched, mutated, muts, inKeys,
                 inPorts>>
  /\ UNCHANGED <<numWorkers, wpc, outcome, pipe, sent, cache, recvs, blocked,
                 exitcode, signalled, supPc, nextN, processes, todo,
                 raisedMsg, raisedCount, observed, queries, lastQuery,
                 qAfter, trainVars>>

\* neuron.run, lines 149-176: which config each serve task is given;
\* one config means serve(self.config, ...) in this process, several mean
\* one Process(target=serve, args=(shared_subconfig, ...)) each
NeuronRun ==
  /\ initStatus = "ok"
  /\ launched = None
  /\ launched' = IF Len(shared_subconfigs) = 1 THEN << <<1>> >>
                 ELSE <<shared_subconfigs>>
  /\ UNCHANGED <<shared_keys, shared_ports, cfgHeap, walletHeap, axonHeap,
                 shared_subconfigs, initStatus, mutated, muts, atFanout,
                 inKeys, inPorts>>
  /\ UNCHANGED <<numWorkers, wpc, outcome, pipe, sent, cache, recvs, blocked,
                 exitcode, signalled, supPc, nextN, processes, todo,
                 raisedMsg, raisedCount, observed, queries, lastQuery,
                 qAfter, trainVars>>

\* an owner writes an attribute of its config: shared_subconfigs[i].attr = v
MutateConfig(i, attr) ==
  /\ initStatus = "ok"
  /\ muts < MaxMutations
  /\ i \in 1..Len(shared_subconfigs)
  /\ LET c == shared_subconfigs[i]
     IN CASE attr = "name" ->
               /\ walletHeap' = [walletHeap EXCEPT
                                   ![cfgHeap[c].wallet].name = <<"Z">>]
               /\ UNCHANGED axonHeap
          [] attr = "hotkey" ->
               /\ walletHeap' = [walletHeap EXCEPT
                                   ![cfgHeap[c].wallet].hotkey = <<"z">>]
               /\ UNCHANGED axonHeap
          [] attr = "port" ->
               /\ axonHeap' = [axonHeap EXCEPT ![cfgHeap[c].axon].port = 7]
               /\ UNCHANGED walletHeap
  /\ mutated' = mutated \cup {i}
  /\ muts' = muts + 1
  /\ UNCHANGED <<shared_keys, shared_ports, cfgHeap, shared_subconfigs,
                 initStatus, launched, atFanout, inKeys, inPorts>>
  /\ UNCHANGED <<numWorkers, wpc, outcome, pipe, sent, cache, recvs, blocked,
                 exitcode, signalled, supPc, nextN, processes, todo,
                 raisedMsg, raisedCount, observed, queries, lastQuery,
                 qAfter, trainVars>>

RECURSIVE Join(_, _)
\* sep.join(entries), the text a shared_keys / shared_ports option holds
Join(entries, sep) ==
  IF Len(entries) = 0 THEN <<>>
  ELSE IF Len(entries) = 1 THEN entries[1]
  ELSE entries[1] \o <<sep>> \o Join(Tail(entries), sep)

\* key entries: two of the form cold:hot, one without the separator,
\* one with two separators
KeyEntries == {<<"A", ":", "a">>, <<"B", ":", "b">>, <<"A", "b">>,
               <<"A", ":", "a", ":", "b">>}
\* port entries: two decimal numbers and one that is no number
PortEntries == {<<"9">>, <<"9", "0">>, <<"x">>}

SeqsUpTo(S, n) == UNION {[1..m -> S] : m \in 1..n}

\* the base config: wallet.name, wallet.hotkey and axon.port hold defaults
BaseHeap ==
  [cfg |-> <<[wallet |-> 1, axon |-> 1]>>,
   wallet |-> <<[name |-> <<"d">>, hotkey |-> <<"d">>]>>,
   axon |-> <<[port |-> 8091]>>]

\* a neuron is about to be constructed from a config
InitFanout ==
  /\ numWorkers = 0
  /\ ProcessInit
  /\ supPc = "idle"
  /\ nextN = 0
  /\ processes = {}
  /\ todo = <<>>
  /\ raisedMsg = None
  /\ raisedCount = 0
  /\ observed = <<>>
  /\ \/ /\ inKeys = <<>>
        /\ shared_keys = None
     \/ /\ inKeys \in SeqsUpTo(KeyEntries, MaxKeys)
        /\ shared_keys = <<Join(inKeys, ",")>>
  /\ \/ /\ inPorts = <<>>
        /\ shared_ports = None
     \/ /\ inPorts \in SeqsUpTo(PortEntries, MaxPorts)
        /\ shared_ports = <<Join(inPorts, ",")>>
  /\ cfgHeap = BaseHeap.cfg
  /\ walletHeap = BaseHeap.wallet
  /\ axonHeap = BaseHeap.axon
  /\ shared_subconfigs = <<>>
  /\ initStatus = "new"
  /\ launched = None
  /\ mutated = {}
  /\ muts = 0
  /\ atFanout = <<>>
  /\ TrainIdle

NextFanout ==
  \/ NeuronInit
  \/ NeuronRun
  \/ \E i \in 1..MaxKeys, attr \in {"name", "hotkey", "port"} :
       MutateConfig(i, attr)

SpecFanout == InitFanout /\ [][NextFanout]_vars

\* ------------------------------------------ gpt2-wiki: smoothing update
\* everything that is not part of the weight synchronizer
coreVars == <<numWorkers, wpc, outcome, pipe, sent, cache, recvs, blocked,
              exitcode, signalled, supPc, nextN, processes, todo, raisedMsg,
              raisedCount, observed, queries, lastQuery, qAfter, fanVars>>

Abs(x) == IF x < 0 THEN 0 - x ELSE x

RECURSIVE SumSeq(_)
SumSeq(q) == IF q = <<>> THEN 0 ELSE Head(q) + SumSeq(Tail(q))

RECURSIVE Gcd(_, _)
Gcd(a, b) == IF b = 0 THEN a ELSE Gcd(b, a % b)

RECURSIVE GcdSeq(_)
GcdSeq(q) == IF q = <<>> THEN 0 ELSE Gcd(Abs(Head(q)), GcdSeq(Tail(q)))

\* lines 127-128 on the row num/den and the batch mean b:
\*   row = (1 - 0.03) * row + 0.03 * batch;  row = F.normalize(row, p=1)
\* in exact fractions.  The smoothed row is m / (100 * den); F.normalize
\* divides by max(L1 norm, 1e-12), so a row whose L1 norm is 0 stays 0 and
\* any other row of this model (norm >= 1 / (100 * den)) becomes m / sum|m|.
Smooth(num, den, b) ==
  LET m == [i \in 1..Len(num) |-> 97 * num[i] + 3 * b[i] * den]
      l1 == SumSeq([i \in 1..Len(m) |-> Abs(m[i])])
      g == GcdSeq(m)
  IN IF l1 = 0
     THEN [num |-> m, den |-> 1]
     ELSE [num |-> [i \in 1..Len(m) |-> m[i] \div g], den |-> l1 \div g]

\* rows session.metagraph.W[0, :] can hold: all zero, or L1-normalized
StartRows == {[num |-> <<0, 0>>, den |-> 1], [num |-> <<1, 0>>, den |-> 1],
              [num |-> <<1, 1>>, den |-> 2], [num |-> <<1, 3>>, den |-> 4]}
\* batch means torch.mean(output.weights, axis=0): non-negative scores
BatchMeans == {<<0, 0>>, <<1, 0>>, <<0, 1>>, <<1, 1>>, <<2, 1>>}

\* one step of the loop body as far as the row goes
SmoothStep ==
  /\ smoothSteps < MaxSmoothSteps
  /\ \E b \in BatchMeans :
       LET r == Smooth(rowNum, rowDen, b)
       IN rowNum' = r.num /\ rowDen' = r.den
  /\ smoothSteps' = smoothSteps + 1
  /\ UNCHANGED <<coreVars, syncVars>>

\* line 85: row_weights = session.metagraph.W[0, :]
InitSmooth ==
  /\ numWorkers = 0
  /\ ProcessInit
  /\ supPc = "idle"
  /\ nextN = 0
  /\ processes = {}
  /\ todo = <<>>
  /\ raisedMsg = None
  /\ raisedCount = 0
  /\ observed = <<>>
  /\ FanIdle
  /\ \E r \in StartRows : rowNum = r.num /\ rowDen = r.den
  /\ smoothSteps = 0
  /\ SyncIdle

NextSmooth == SmoothStep

SpecSmooth == InitSmooth /\ [][NextSmooth]_vars

\* ------------------------------------------- gpt2-wiki: main and train
\* train, line 88
local_epochs == 10
\* values of config.neuron.sync_interval: within and beyond one invocation
SyncIntervals == {3, 12}
\* values of output.local_target_loss
Losses == {1, 2}

\* line 130: (global_step + 1) % config.neuron.sync_interval == 0
PublishDue == (global_step + 1) % sync_interval = 0

\* a variant that sets the priority right after the emit, before the pull
NextPhase_prioFirst(phase, due) ==
  CASE phase = "compute" -> IF due THEN "emit" ELSE "end"
    [] phase = "emit" -> "prio"
    [] phase = "prio" -> "sync"
    [] phase = "sync" -> "reset"
    [] phase = "reset" -> "end"

\* the order of the calls in the loop body, lines 126-141
NextPhase(phase, due) ==
  CASE phase = "compute" -> IF due THEN "emit" ELSE "end"
    [] phase = "emit" -> "sync"
    [] phase = "sync" -> "reset"
    [] phase = "reset" -> "prio"
    [] phase = "prio" -> "end"

\* where train stands when the call named point runs
PhaseOf(point) == IF point = "cache" THEN "end" ELSE point

\* a variant with the forward and backward pass outside the try block
Caught_computeOutside(point) == point \in {"emit", "sync", "prio", "cache"}

\* a variant with the publish and the pull outside the try block
Caught_publishOutside(point) == point \in {"compute", "prio", "cache"}

\* the calls that lie inside try ... except Exception, lines 93-149
Caught(point) == point \in {"compute", "emit", "sync", "prio", "cache"}

\* a variant with the two increments at the top of the loop body
CountsBeforeRaise_always(point) == TRUE

\* the calls that come after local_step += 1; global_step += 1
CountsBeforeRaise(point) == point = "cache"

\* a variant that compares with <=
Improves_orEqual(loss, best) == best = None \/ loss <= best[1]

\* line 167: train_loss < best_train_loss, best starting at math.inf
Improves(loss, best) == best = None \/ loss < best[1]

\* the counted steps since the last row reset, once this step is counted
Counted ==
  IF \E i \in 1..Len(cycleLog) : cycleLog[i] = "row"
  THEN sincePublish
  ELSE Append(sincePublish, global_step + 1)

\* an Exception leaves the call named point: lines 146-149 log it and the
\* while loop goes on, or it leaves train and main
Raise(point) ==
  IF Caught(point)
  THEN /\ tpc' = "loop"
       /\ fails' = fails + 1
       /\ lastFail' = <<point>>
       /\ UNCHANGED faultCause
  ELSE /\ tpc' = "fault"
       /\ faultCause' = <<point>>
       /\ UNCHANGED <<fails, lastFail>>

\* main, lines 156-160: epoch += 1, then train(epoch, global_step) is called
MainCall ==
  /\ tpc = "main"
  /\ epoch' = epoch + 1
  /\ tpc' = "train_init"
  /\ UNCHANGED <<sync_interval, global_step, local_step, output,
                 best_train_loss, saved, row, chainRow, chainCol, W,
                 emitCount, lastEmit, sincePublish, pullCount, lastPullStep,
                 prio, cycleLog, fails, lastFail, faultCause, attemptStart,
                 minSeen, peerPubs>>
  /\ UNCHANGED <<coreVars, smoothVars>>

\* train, lines 83-90: session.metagraph.sync(); row_weights = W[0, :];
\* local_step = 0; output = None
TrainInit ==
  /\ tpc = "train_init"
  /\ W' = [row |-> chainRow, col |-> chainCol, at |-> emitCount]
  /\ row' = [base |-> chainRow, steps |-> <<>>]
  /\ local_step' = 0
  /\ output' = None
  /\ tpc' = "loop"
  /\ UNCHANGED <<sync_interval, epoch, global_step, best_train_loss, saved,
                 chainRow, chainCol, emitCount, lastEmit, sincePublish,
                 pullCount, lastPullStep, prio, cycleLog, fails, lastFail,
                 faultCause, attemptStart, minSeen, peerPubs>>
  /\ UNCHANGED <<coreVars, smoothVars>>

\* train, line 84: the sync before the try block raises
TrainInitFails ==
  /\ tpc = "train_init"
  /\ Raise("init_sync")
  /\ UNCHANGED <<sync_interval, epoch, global_step, local_step, output,
                 best_train_loss, saved, row, chainRow, chainCol, W,
                 emitCount, lastEmit, sincePublish, pullCount, lastPullStep,
                 prio, cycleLog, attemptStart, minSeen, peerPubs>>
  /\ UNCHANGED <<coreVars, smoothVars>>

\* train, line 92: while local_step < local_epochs, else line 151: return
LoopHead ==
  /\ tpc = "loop"
  /\ \/ /\ local_step < local_epochs
        /\ global_step < MaxGlobalStep
        /\ tpc' = "compute"
        /\ lastFail' = None
        /\ cycleLog' = <<>>
        /\ attemptStart' = <<global_step, local_step>>
     \/ /\ ~(local_step < local_epochs)
        /\ tpc' = "ret"
        /\ UNCHANGED <<lastFail, cycleLog, attemptStart>>
  /\ UNCHANGED <<sync_interval, epoch, global_step, local_step, output,
                 best_train_loss, saved, row, chainRow, chainCol, W,
                 emitCount, lastEmit, sincePublish, pullCount, lastPullStep,
                 prio, fails, faultCause, minSeen, peerPubs>>
  /\ UNCHANGED <<coreVars, smoothVars>>

\* train, lines 94-130: batch, forward, backward, optimizer, logs, then the
\* smoothing update of row_weights with this batch, then the interval test
Compute ==
  /\ tpc = "compute"
  /\ \E loss \in Losses : output' = <<loss>>
  /\ row' = [row EXCEPT !.steps = Append(@, global_step + 1)]
  /\ tpc' = NextPhase("compute", PublishDue)
  /\ UNCHANGED <<sync_interval, epoch, global_step, local_step,
                 best_train_loss, saved, chainRow, chainCol, W, emitCount,
                 lastEmit, sincePublish, pullCount, lastPullStep, prio,
                 cycleLog, fails, lastFail, faultCause, attemptStart,
                 minSeen, peerPubs>>
  /\ UNCHANGED <<coreVars, smoothVars>>

\* train, line 133: session.metagraph.emit(row_weights,
\* wait_for_inclusion=True) returns once the row is on the chain
Emit ==
  /\ tpc = "emit"
  /\ chainRow' = emitCount + 1
  /\ emitCount' = emitCount + 1
  /\ lastEmit' = <<[row |-> row,
                    since |-> Append(sincePublish, global_step + 1),
                    step |-> global_step + 1]>>
  /\ cycleLog' = Append(cycleLog, "emit")
  /\ tpc' = NextPhase("emit", TRUE)
  /\ UNCHANGED <<sync_interval, epoch, global_step, local_step, output,
                 best_train_loss, saved, row, chainCol, W, sincePublish,
                 pullCount, lastPullStep, prio, fails, lastFail, faultCause,
                 attemptStart, minSeen, peerPubs>>
  /\ UNCHANGED <<coreVars, smoothVars>>

\* train, line 134: session.metagraph.sync() pulls the chain state
Sync ==
  /\ tpc = "sync"
  /\ W' = [row |-> chainRow, col |-> chainCol, at |-> emitCount]
  /\ pullCount' = pullCount + 1
  /\ lastPullStep' = global_step + 1
  /\ cycleLog' = Append(cycleLog, "sync")
  /\ tpc' = NextPhase("sync", TRUE)
  /\ UNCHANGED <<sync_interval, epoch, global_step, local_step, output,
                 best_train_loss, saved, row, chainRow, chainCol, emitCount,
                 lastEmit, sincePublish, prio, fails, lastFail, faultCause,
                 attemptStart, minSeen, peerPubs>>
  /\ UNCHANGED <<coreVars, smoothVars>>

\* train, line 135: row_weights = session.metagraph.W[0, :]
ResetRow ==
  /\ tpc = "reset"
  /\ row' = [base |-> W.row, steps |-> <<>>]
  /\ sincePublish' = <<>>
  /\ cycleLog' = Append(cycleLog, "row")
  /\ tpc' = NextPhase("reset", TRUE)
  /\ UNCHANGED <<sync_interval, epoch, global_step, local_step, output,
                 best_train_loss, saved, chainRow, chainCol, W, emitCount,
                 lastEmit, pullCount, lastPullStep, prio, fails, lastFail,
                 faultCause, attemptStart, minSeen, peerPubs>>
  /\ UNCHANGED <<coreVars, smoothVars>>

\* train, lines 138-139: col_weights = W[:, 0];
\* session.axon.set_priority(neurons, col_weights)
SetPriority ==
  /\ tpc = "prio"
  /\ prio' = <<[col |-> W.col, at |-> W.at, emits |-> emitCount]>>
  /\ cycleLog' = Append(cycleLog, "prio")
  /\ tpc' = NextPhase("prio", TRUE)
  /\ UNCHANGED <<sync_interval, epoch, global_step, local_step, output,
                 best_train_loss, saved, row, chainRow, chainCol, W,
                 emitCount, lastEmit, sincePublish, pullCount, lastPullStep,
                 fails, lastFail, faultCause, attemptStart, minSeen, peerPubs>>
  /\ UNCHANGED <<coreVars, smoothVars>>

\* train, lines 141-143: local_step += 1; global_step += 1; empty_cache()
StepEnd ==
  /\ tpc = "end"
  /\ local_step' = local_step + 1
  /\ global_step' = global_step + 1
  /\ sincePublish' = Counted
  /\ tpc' = "loop"
  /\ UNCHANGED <<sync_interval, epoch, output, best_train_loss, saved, row,
                 chainRow, chainCol, W, emitCount, lastEmit, pullCount,
                 lastPullStep, prio, cycleLog, fails, lastFail, faultCause,
                 attemptStart, minSeen, peerPubs>>
  /\ UNCHANGED <<coreVars, smoothVars>>

\* a call of the try block raises an Exception: point names the call.
\* compute: lines 94-128, before or after output is assigned;
\* emit, sync, prio: lines 133, 134, 139; cache: line 143, after the
\* counters were advanced
Fail(point) ==
  /\ fails < MaxFails
  /\ tpc = PhaseOf(point)
  /\ IF point = "compute"
     THEN \E o \in {output} \cup {<<l>> : l \in Losses} : output' = o
     ELSE output' = output
  /\ IF CountsBeforeRaise(point)
     THEN /\ local_step' = local_step + 1
          /\ global_step' = global_step + 1
          /\ sincePublish' = Counted
     ELSE UNCHANGED <<local_step, global_step, sincePublish>>
  /\ Raise(point)
  /\ UNCHANGED <<sync_interval, epoch, best_train_loss, saved, row, chainRow,
                 chainCol, W, emitCount, lastEmit, pullCount, lastPullStep,
                 prio, cycleLog, attemptStart, minSeen, peerPubs>>
  /\ UNCHANGED <<coreVars, smoothVars>>

\* main, lines 160-171: train returned; scheduler.step(); if output: save
\* the model when train_loss < best_train_loss
TrainReturn ==
  /\ tpc = "ret"
  /\ IF Truthy(output) /\ Improves(output[1], best_train_loss)
     THEN /\ best_train_loss' = output
          /\ saved' = <<[epoch |-> epoch, loss |-> output[1]]>>
     ELSE UNCHANGED <<best_train_loss, saved>>
  /\ minSeen' = IF Truthy(output) /\ (minSeen = None \/ output[1] < minSeen[1])
                THEN output ELSE minSeen
  /\ tpc' = "main"
  /\ UNCHANGED <<sync_interval, epoch, global_step, local_step, output, row,
                 chainRow, chainCol, W, emitCount, lastEmit, sincePublish,
                 pullCount, lastPullStep, prio, cycleLog, fails, lastFail,
                 faultCause, attemptStart, peerPubs>>
  /\ UNCHANGED <<coreVars, smoothVars>>

\* another peer publishes its row: column 0 of the shared state moves
PeerPublish ==
  /\ tpc \notin {"fault", "idle"}
  /\ peerPubs < MaxPeerPubs
  /\ chainCol' = chainCol + 1
  /\ peerPubs' = peerPubs + 1
  /\ UNCHANGED <<tpc, sync_interval, epoch, global_step, local_step, output,
                 best_train_loss, saved, row, chainRow, W, emitCount,
                 lastEmit, sincePublish, pullCount, lastPullStep, prio,
                 cycleLog, fails, lastFail, faultCause, attemptStart, minSeen>>
  /\ UNCHANGED <<coreVars, smoothVars>>

\* main is entered with a config and a session
InitTrain ==
  /\ numWorkers = 0
  /\ ProcessInit
  /\ supPc = "idle"
  /\ nextN = 0
  /\ processes = {}
  /\ todo = <<>>
  /\ raisedMsg = None
  /\ raisedCount = 0
  /\ observed = <<>>
  /\ FanIdle
  /\ SmoothIdle
  /\ tpc = "main"
  /\ sync_interval \in SyncIntervals
  /\ epoch = -1
  /\ global_step = 0
  /\ local_step = 0
  /\ output = None
  /\ best_train_loss = None
  /\ saved = None
  /\ row = [base |-> 0, steps |-> <<>>]
  /\ chainRow = 0
  /\ chainCol = 0
  /\ W = [row |-> 0, col |-> 0, at |-> 0]
  /\ emitCount = 0
  /\ lastEmit = None
  /\ sincePublish = <<>>
  /\ pullCount = 0
  /\ lastPullStep = 0
  /\ prio = None
  /\ cycleLog = <<>>
  /\ fails = 0
  /\ lastFail = None
  /\ faultCause = None
  /\ attemptStart = <<0, 0>>
  /\ minSeen = None
  /\ peerPubs = 0

NextTrain ==
  \/ MainCall
  \/ TrainInit
  \/ TrainInitFails
  \/ LoopHead
  \/ Compute
  \/ Emit
  \/ Sync
  \/ ResetRow
  \/ SetPriority
  \/ StepEnd
  \/ \E point \in {"compute", "emit", "sync", "prio", "cache"} : Fail(point)
  \/ TrainReturn
  \/ PeerPublish

SpecTrain == InitTrain /\ [][NextTrain]_vars

\* ------------------------------------------------------------- claims
Delivered(k) == Truthy(PairOf(k))
OnlyRaiser(k) == \A j \in AllIds \ {k} : outcome[j] # "raised"
AllActiveTerminated == \A j \in processes : signalled[j]

\* C1: once the run body of a worker k has raised, the supervisor
\* eventually has sent terminate to every process of its active set and has
\* raised a ChildProcessError; its message is the trace k captured when k
\* is the only worker that raised.
C1_FaultEscalates ==
  \A k \in AllIds :
    (outcome[k] = "raised") ~>
      (/\ supPc = "raised"
       /\ raisedCount = 1
       /\ AllActiveTerminated
       /\ (OnlyRaiser(k) => raisedMsg = TraceOf(k)))

\* C1 witness: the last-spawned worker is the only one that raised, a
\* sibling was alive in the active set, and the error carries its trace
C1_Witness ==
  /\ supPc = "raised"
  /\ outcome[numWorkers - 1] = "raised"
  /\ OnlyRaiser(numWorkers - 1)
  /\ raisedMsg = TraceOf(numWorkers - 1)
  /\ \E j \in processes : j # numWorkers - 1 /\ signalled[j] /\ Alive(j)

\* worker k stopped without succeeding
Failed(k) ==
  \/ outcome[k] = "raised"
  \/ /\ wpc[k] = "exited"
     /\ exitcode[k] # <<0>>
     /\ ~Delivered(k)

\* C2: whenever some worker stops without succeeding (its body raised, or
\* it ended with a non-zero exit status and an empty fault slot), the
\* supervision loop eventually ends with no sibling of its active set left
\* running unterminated.
C2_NoOrphans ==
  \A k \in AllIds :
    Failed(k) ~>
      (/\ supPc \in {"raised", "returned"}
       /\ \A j \in processes : signalled[j] \/ ~Alive(j))

\* C3: run() returns normally only if every spawned worker exited with
\* status 0 and an empty fault slot; no worker whose body raised an
\* Exception has been reaped.
C3_ReturnOnlyOnSuccess ==
  supPc = "returned" =>
    \A k \in Workers :
      /\ wpc[k] = "exited"
      /\ exitcode[k] = <<0>>
      /\ ~Delivered(k)
      /\ outcome[k] # "raised"

\* C3 witness: run() returned after reaping every worker
C3_Witness ==
  /\ supPc = "returned"
  /\ processes = {}
  /\ \E k \in Workers : outcome[k] = "returned" /\ recvs[k] = 1

\* C4: the caller sees at most one raised error; it sees one exactly when
\* the poll loop has met a dead worker with a delivered pair, and the
\* message is the trace captured by the first such worker, which did fault.
C4_OneErrorFirstObserved ==
  /\ raisedCount <= 1
  /\ (supPc = "raised") = (raisedCount = 1)
  /\ (raisedCount = 1) = (observed # <<>>)
  /\ observed # <<>> =>
       /\ Len(observed) = 1
       /\ outcome[observed[1]] = "raised"
       /\ raisedMsg = TraceOf(observed[1])

\* C4 witness: two workers faulted with different traces, one error raised
C4_Witness ==
  /\ raisedCount = 1
  /\ \E j, k \in Workers :
       /\ j # k
       /\ outcome[j] = "raised" /\ outcome[k] = "raised"
       /\ TraceOf(j) # TraceOf(k)
       /\ observed = <<k>>
       /\ raisedMsg = TraceOf(k)

\* the run of worker k is over: Process.run returned or the body left it
RunOver(k) == outcome[k] \in {"returned", "raised", "base"}

\* C5 (as claimed): every run puts exactly one message into the channel,
\* None when the body completes, the pair when the body raises.
C5_ExactlyOneMessage ==
  \A k \in Workers :
    RunOver(k) =>
      /\ Len(sent[k]) = 1
      /\ (outcome[k] = "returned") = (sent[k][1] = None)

\* C5 (amended): a run whose body returns sends None exactly once, a run
\* whose body raises an Exception sends the pair exactly once, a run whose
\* body ends with a non-Exception BaseException or that is killed in the
\* body sends nothing; no run sends two messages.
C5_OneMessageUnlessBaseException ==
  \A k \in Workers :
    /\ Len(sent[k]) <= 1
    /\ outcome[k] = "returned" => sent[k] = <<None>>
    /\ outcome[k] = "raised" => Len(sent[k]) = 1 /\ Truthy(sent[k][1])
    /\ outcome[k] \in {"none", "base", "killed", "terminated"}
         => sent[k] = <<>>

\* C5 witness: one run raised an Exception, another ended by SystemExit
C5_Witness ==
  \E j, k \in Workers :
    /\ outcome[j] = "raised" /\ wpc[j] = "exited" /\ Len(sent[j]) = 1
    /\ outcome[k] = "base" /\ wpc[k] = "exited" /\ sent[k] = <<>>

\* C6 (as claimed): a worker whose body raised and delivered the pair
\* exits with a non-zero status.
C6_NonZeroExitAfterFault ==
  \A k \in Workers :
    (outcome[k] = "raised" /\ wpc[k] = "exited") => exitcode[k] # <<0>>

\* C6 (amended): a worker whose body raised an Exception and delivered the
\* pair exits with status 0, the exception being swallowed; its status is
\* non-zero only when a signal ends the process first (minus the signal).
C6_ZeroExitAfterFault ==
  \A k \in Workers :
    (outcome[k] = "raised" /\ wpc[k] = "exited") =>
      /\ Delivered(k)
      /\ exitcode[k] \in {<<0>>, <<-9>>, <<-15>>}
      /\ (~signalled[k] => exitcode[k] \in {<<0>>, <<-9>>})

\* C6 witness: a worker raised, delivered and exited by itself
C6_Witness ==
  \E k \in Workers :
    /\ outcome[k] = "raised"
    /\ wpc[k] = "exited"
    /\ exitcode[k] = <<0>>
    /\ Delivered(k)

\* C7: every read of Process.exception made after the pair was sent returns
\* that pair; a read made before anything was sent returns None; the
\* channel is received from at most once, the value then sits in the
\* cache; no read blocks.
C7_IdempotentRead ==
  \A k \in Workers :
    /\ qAfter[k] > 0 => lastQuery[k] = PairOf(k) /\ cache[k] = PairOf(k)
    /\ (queries[k] > 0 /\ sent[k] = <<>>) => lastQuery[k] = None
    /\ recvs[k] <= 1
    /\ recvs[k] = 1 => (pipe[k] = <<>> /\ cache[k] = sent[k][1])
    /\ ~blocked[k]

\* C7 witness: two reads after a faulting run, one receive
C7_Witness ==
  \E k \in Workers :
    /\ qAfter[k] >= 2
    /\ recvs[k] = 1
    /\ lastQuery[k] = PairOf(k)
    /\ Delivered(k)

\* what a config object holds, read through its wallet and axon objects
ConfigView(h, c) ==
  [name |-> h.wallet[h.cfg[c].wallet].name,
   hotkey |-> h.wallet[h.cfg[c].wallet].hotkey,
   port |-> h.axon[h.cfg[c].axon].port]

\* the number a port entry denotes, read off the entry
ExpectedPort(e) ==
  CASE e = <<"9">> -> 9 [] e = <<"9", "0">> -> 90 [] OTHER -> -1

\* a key entry of the form cold:hot, a port entry that is a number
GoodKey(e) == Len(e) = 3 /\ e[2] = ":" /\ e[1] # ":" /\ e[3] # ":"
GoodPort(e) == ExpectedPort(e) >= 0
WellFormed ==
  /\ shared_keys # None
  /\ shared_ports # None
  /\ Len(inKeys) = Len(inPorts)
  /\ \A i \in 1..Len(inKeys) : GoodKey(inKeys[i]) /\ GoodPort(inPorts[i])

\* C8: with shared_keys null the fan-out returns the input config alone,
\* nothing substituted; with N entries cold:hot and N ports it returns N
\* configs in input order, the i-th with the i-th coldkey as wallet name,
\* the i-th hotkey and the i-th port.
C8_FanoutResult ==
  /\ (initStatus # "new" /\ shared_keys = None) =>
       /\ initStatus = "ok"
       /\ shared_subconfigs = <<1>>
       /\ atFanout = BaseHeap
  /\ (initStatus # "new" /\ WellFormed) =>
       /\ initStatus = "ok"
       /\ Len(shared_subconfigs) = Len(inKeys)
       /\ \A i \in 1..Len(inKeys) :
            ConfigView(atFanout, shared_subconfigs[i]) =
              [name |-> <<inKeys[i][1]>>, hotkey |-> <<inKeys[i][3]>>,
               port |-> ExpectedPort(inPorts[i])]

\* C8 witness: two different identities fanned out in order
C8_Witness ==
  /\ initStatus = "ok"
  /\ WellFormed
  /\ Len(shared_subconfigs) = 2
  /\ inKeys[1] # inKeys[2]
  /\ inPorts[1] # inPorts[2]
  /\ ConfigView(atFanout, shared_subconfigs[2]).port = 90

\* a key list and a port list of unequal lengths, or a key entry without
\* the separator
Malformed ==
  /\ shared_keys # None
  /\ \/ shared_ports # None /\ Len(inKeys) # Len(inPorts)
     \/ \E i \in 1..Len(inKeys) : \A j \in 1..Len(inKeys[i]) :
          inKeys[i][j] # ":"

\* C9: on malformed input the fan-out fails, no list of configs is
\* returned and no serve task is launched.
C9_MalformedFails ==
  (initStatus # "new" /\ Malformed) =>
    /\ initStatus = "error"
    /\ launched = None

\* C10: with a shared-identity directive, the fan-out leaves the original
\* config as it was, and whatever is written to some derived configs, the
\* other derived configs and the original hold what they held right after
\* the fan-out.
C10_IndependentCopies ==
  (initStatus = "ok" /\ shared_keys # None) =>
    /\ ConfigView(atFanout, 1) = ConfigView(BaseHeap, 1)
    /\ ConfigView(Heap, 1) = ConfigView(BaseHeap, 1)
    /\ \A j \in 1..Len(shared_subconfigs) :
         j \notin mutated =>
           ConfigView(Heap, shared_subconfigs[j]) =
             ConfigView(atFanout, shared_subconfigs[j])

\* C10 witness: one of two derived configs was written to twice
C10_Witness ==
  /\ initStatus = "ok"
  /\ shared_keys # None
  /\ Len(shared_subconfigs) = 2
  /\ mutated = {1}
  /\ muts = 2
  /\ ConfigView(Heap, shared_subconfigs[1]) #
       ConfigView(atFanout, shared_subconfigs[1])

\* the identity a config carries: (coldkey, hotkey, port)
Identity(h, c) ==
  <<ConfigView(h, c).name, ConfigView(h, c).hotkey, ConfigView(h, c).port>>

\* C11: for a key list and a port list of equal length N the N configs of
\* the fan-out carry pairwise distinct identities, repeated entries in the
\* input included.
C11_DistinctIdentities ==
  (/\ initStatus = "ok"
   /\ shared_keys # None
   /\ shared_ports # None
   /\ Len(inKeys) = Len(inPorts)) =>
    \A i, j \in 1..Len(shared_subconfigs) :
      i # j => Identity(atFanout, shared_subconfigs[i]) #
                 Identity(atFanout, shared_subconfigs[j])

\* C18: the serve task launched for identity i is given the i-th derived
\* config, for every number N >= 1 of derived identities; with one entry
\* in the key list the single serve task runs under the derived identity.
C18_ServesDerivedConfig ==
  (launched # None /\ shared_keys # None) =>
    /\ launched[1] = shared_subconfigs
    /\ \A i \in 1..Len(launched[1]) :
         Identity(Heap, launched[1][i]) =
           Identity(Heap, shared_subconfigs[i])

\* C12: after every smoothing update, whatever the starting row and the
\* batch contributions, the row has no negative entry and sums to 1.
C12_NormalizedRow ==
  smoothSteps > 0 =>
    /\ \A i \in 1..Len(rowNum) : rowNum[i] >= 0
    /\ SumSeq(rowNum) = rowDen

\* C13: a worker that has processed N steps with sync interval S has done
\* exactly N div S publish/pull cycles, the last one at step (N div S) * S,
\* also across invocations and when attempts raised and were retried.
C13_PublishEveryInterval ==
  (tpc = "loop" /\ lastFail = None) =>
    /\ pullCount = global_step \div sync_interval
    /\ lastPullStep = pullCount * sync_interval

PublishCalls == <<"emit", "sync", "row", "prio">>
Mode == IF tpc \in {"emit", "sync", "reset", "prio"}
        THEN "PUBLISHING" ELSE "ACCUMULATING"

\* C14: in a publish cycle the calls come in the order emit, sync, row
\* reset, set_priority; the row is reset to the own row just pulled;
\* set_priority gets a column pulled after the worker's most recent emit;
\* after set_priority the worker is in ACCUMULATING.
C14_PublishOrder ==
  /\ \E n \in 0..Len(PublishCalls) : cycleLog = SubSeq(PublishCalls, 1, n)
  /\ (Len(cycleLog) >= 3 /\ tpc \in {"prio", "end"}) =>
       /\ row = [base |-> chainRow, steps |-> <<>>]
       /\ W.at = emitCount
  /\ prio # None =>
       /\ prio[1].at = prio[1].emits
       /\ prio[1].emits >= 1
  /\ cycleLog = PublishCalls =>
       /\ Mode = "ACCUMULATING"
       /\ prio = <<[col |-> W.col, at |-> W.at, emits |-> emitCount]>>

\* C14 witness: a cycle ran to its end and set_priority got a column that
\* a peer had moved
C14_Witness ==
  /\ cycleLog = PublishCalls
  /\ tpc = "end"
  /\ prio # None
  /\ prio[1].col = 1
  /\ emitCount >= 2

StepPoints == {<<"compute">>, <<"emit">>, <<"sync">>, <<"prio">>, <<"cache">>}

\* C15: no failure of a step makes the run body raise or stop: the run
\* body raises only for a reason outside the step loop, and after step
\* failures the loop is still going.
C15_StepFailuresContained ==
  /\ faultCause \notin StepPoints
  /\ (tpc = "fault") = (faultCause = <<"init_sync">>)
  /\ (lastFail # None /\ faultCause = None) =>
       tpc \in {"loop", "ret", "main", "train_init"}

\* C15 witness: an invocation returned although attempts had raised
C15_Witness ==
  /\ fails >= 2
  /\ tpc = "ret"
  /\ faultCause = None

\* C16 (as claimed): a failure of the emit or of the sync of a publish
\* cycle is not caught and leaves the step loop as a worker fault.
C16_PublishFailurePropagates ==
  lastFail \in {<<"emit">>, <<"sync">>} => tpc = "fault"

\* C16 (amended): a failure of the emit or of the sync of a publish cycle
\* is caught like any other step failure: the counters stay as they were,
\* the loop goes on and retries the step, and no worker fault arises from
\* a publish call.
C16_PublishFailureCaught ==
  /\ faultCause \notin {<<"emit">>, <<"sync">>}
  /\ lastFail \in {<<"emit">>, <<"sync">>} =>
       /\ tpc = "loop"
       /\ faultCause = None
       /\ <<global_step, local_step>> = attemptStart
       /\ local_step < local_epochs

\* C16 witness: the pull of a publish cycle raised after the emit went in
C16_Witness ==
  /\ lastFail = <<"sync">>
  /\ tpc = "loop"
  /\ cycleLog = <<"emit">>
  /\ emitCount >= 1

\* C17: the row pushed at a publish holds the smoothing update of every
\* step counted since the row was last replaced in a publish cycle (or
\* since serving began).
C17_RowAccumulates ==
  lastEmit # None =>
    \A i \in 1..Len(lastEmit[1].since) :
      \E j \in 1..Len(lastEmit[1].row.steps) :
        lastEmit[1].row.steps[j] = lastEmit[1].since[i]

BestNum == IF best_train_loss = None THEN 1000000 ELSE best_train_loss[1]

\* C19: at the end of an invocation the model is saved exactly when the
\* loss just seen is strictly below the best so far; the best loss never
\* goes up and is the least of the losses seen at the ends of invocations.
C19_SaveOnStrictImprovement ==
  /\ [][(tpc = "ret" /\ tpc' = "main") =>
          /\ (saved' # saved) = (output[1] < BestNum)
          /\ (saved' # saved) =>
               saved' = <<[epoch |-> epoch, loss |-> output[1]]>>
          /\ BestNum' = IF output[1] < BestNum THEN output[1] ELSE BestNum]_vars
  /\ [][BestNum' <= BestNum]_vars
  /\ [](best_train_loss = minSeen)

\* C19 witness: the second invocation ended with a tie and nothing was
\* saved for it
C19_Witness ==
  /\ tpc = "main"
  /\ epoch = 1
  /\ output = best_train_loss
  /\ saved # None
  /\ saved[1].epoch = 0

\* the last attempt of the running invocation raised and was caught
AttemptRaised ==
  /\ lastFail # None
  /\ tpc = "loop"
  /\ attemptStart[1] \div local_epochs = epoch

\* C20 (as claimed): a step attempt that raised has advanced neither
\* local_step nor global_step.
C20_RaisingAttemptCountsNothing ==
  AttemptRaised => <<global_step, local_step>> = attemptStart

InTrain == tpc \in {"loop", "compute", "emit", "sync", "reset", "prio",
                    "end", "ret"}

\* C20 (amended): an attempt that raised before the increments has
\* advanced neither counter, one that raised in empty_cache after them has
\* advanced both by one; train returns only with exactly local_epochs
\* counted steps, and global_step is the number of counted steps.
C20_CountersFollowIncrements ==
  /\ (AttemptRaised /\ lastFail # <<"cache">>) =>
       <<global_step, local_step>> = attemptStart
  /\ (AttemptRaised /\ lastFail = <<"cache">>) =>
       <<global_step, local_step>> = <<attemptStart[1] + 1, attemptStart[2] + 1>>
  /\ tpc = "ret" => local_step = local_epochs
  /\ InTrain => global_step = local_epochs * epoch + local_step
  /\ tpc = "main" => global_step = local_epochs * (epoch + 1)

\* C20 witness: an attempt raised in empty_cache, another before the
\* increments, and the invocation returned after ten counted steps
C20_Witness ==
  /\ tpc = "ret"
  /\ fails = 2
  /\ lastFail = <<"cache">>
  /\ global_step = attemptStart[1] + 1
  /\ local_step = local_epochs

====
